---- MODULE Spec2Model ----
(***************************************************************************)
(* Product dashboard (App component).  Three variants of the component are *)
(* in the sources:                                                         *)
(*   "auto"     src/src/App.tsx 15-173: a useEffect re-runs applyFilters   *)
(*              when selectedBrand, selectedCategory, search or products   *)
(*              change; no Apply button; two empty-state messages.         *)
(*   "apply"    src/src/App.tsx 189-307: applyFilters runs only from the   *)
(*              Apply button; no empty-state message.                      *)
(*   "applyMsg" src/unnamed/part_000: as "apply", with a "No results       *)
(*              found" row whenever filtered is empty.                     *)
(* Strings are sequences of one-character strings; "" is << >>.            *)
(* React state updates made by one handler are batched into one render,   *)
(* and the effects of that render are flushed before the next event.      *)
(***************************************************************************)
EXTENDS Integers, Sequences, FiniteSets, TLC

VARIABLES variant,          \* which variant of the component is mounted
          store,            \* the rows of the products table
          loadState,        \* "pending", "loaded" or "failed": the fetch promise
          products, filtered, brands, categories,
          selectedBrand, selectedCategory, search,
          sheet,            \* the rows last handed to XLSX.writeFile
          lastEvent         \* the handler that ran last

vars == <<variant, store, loadState, products, filtered, brands, categories,
          selectedBrand, selectedCategory, search, sheet, lastEvent>>

\* ------------------------------------------------------------------ bounds
\* longest text the search box is given
MaxQueryLen == 2
\* most rows the store returns
MaxRows == 2

\* ----------------------------------------------------------------- strings
EmptyStr == << >>

Variants == {"auto", "apply", "applyMsg"}

\* characters the search box can be given
QueryChars == {"a", "A", " "}

\* e.target.value after one keystroke in a box holding s: a character typed
\* at the end, or the last character deleted
Keystrokes(s) ==
    {Append(s, c) : c \in {d \in QueryChars : Len(s) < MaxQueryLen}} \cup
    {SubSeq(s, 1, Len(s) - 1) : x \in {y \in {s} : y # EmptyStr}}

\* String.prototype.toLowerCase, one character
LowerChar(c) == CASE c = "A" -> "a" [] c = "B" -> "b" [] OTHER -> c

\* String.prototype.toLowerCase
toLowerCase(s) == [i \in 1..Len(s) |-> LowerChar(s[i])]

IsWhiteSpace(c) == c = " "

RECURSIVE trimStart(_)
trimStart(s) ==
    IF s # EmptyStr /\ IsWhiteSpace(Head(s)) THEN trimStart(Tail(s)) ELSE s

RECURSIVE trimEnd(_)
trimEnd(s) ==
    IF s # EmptyStr /\ IsWhiteSpace(s[Len(s)])
    THEN trimEnd(SubSeq(s, 1, Len(s) - 1)) ELSE s

\* String.prototype.trim
trim(s) == trimEnd(trimStart(s))

\* String.prototype.includes: needle occurs in hay as a contiguous substring
includes(hay, needle) ==
    \E i \in 0..(Len(hay) - Len(needle)) :
        SubSeq(hay, i + 1, i + Len(needle)) = needle

\* JavaScript truthiness of a string
Truthy(s) == s # EmptyStr

\* ---------------------------------------------------------------- products
\* type Product, and the rows the products table can hold
Product(i, n, c, b, pr) == [id |-> i, name |-> n, category |-> c, brand |-> b, price |-> pr]

Catalog ==
    { Product(1, <<"A", " ", "b">>, <<"a">>, <<"B">>, 9),
      Product(2, <<"b", "A">>,      <<"b">>, <<"B">>, 19),
      Product(3, <<"a">>,           <<"a">>, <<"A">>, 5) }

RECURSIVE RowsUpTo(_)
RowsUpTo(n) ==
    IF n = 0 THEN {<< >>}
    ELSE LET shorter == RowsUpTo(n - 1)
             Fresh(l) == {q \in Catalog : \A i \in 1..Len(l) : l[i].id # q.id}
         IN  shorter \cup UNION {{Append(l, p) : p \in Fresh(l)} : l \in shorter}

\* the tables the store can hold
Tables == RowsUpTo(MaxRows)

\* Array.from(list) with the Set forgotten: duplicates are kept
ArrayFromSet_keepsDuplicates(list) == list

\* Array.from(new Set(list)): distinct values in insertion order
RECURSIVE ArrayFromSet(_)
ArrayFromSet(list) ==
    IF list = << >> THEN << >>
    ELSE LET front == ArrayFromSet(SubSeq(list, 1, Len(list) - 1))
             last  == list[Len(list)]
         IN  IF \E i \in 1..Len(front) : front[i] = last
             THEN front ELSE Append(front, last)

\* typedData.map(p => p.brand), typedData.map(p => p.category)
brandsOf(list) == [i \in 1..Len(list) |-> list[i].brand]

categoriesOf(list) == [i \in 1..Len(list) |-> list[i].category]

\* ------------------------------------------------------------ applyFilters
\* applyFilters guarding the text filter with `if (search)`, the trim forgotten
filteredData_untrimmedGuard(all, brand, category, query) ==
    LET byBrand == IF Truthy(brand)
                   THEN SelectSeq(all, LAMBDA p : p.brand = brand) ELSE all
        byCat   == IF Truthy(category)
                   THEN SelectSeq(byBrand, LAMBDA p : p.category = category)
                   ELSE byBrand
        s       == toLowerCase(query)
    IN  IF Truthy(query)
        THEN SelectSeq(byCat, LAMBDA p :
                 \/ includes(toLowerCase(p.name), s)
                 \/ includes(toLowerCase(p.brand), s)
                 \/ includes(toLowerCase(p.category), s))
        ELSE byCat

\* applyFilters collecting the brand matches with unshift: newest first
filteredData_brandReversed(all, brand, category, query) ==
    LET Reverse(l) == [i \in 1..Len(l) |-> l[Len(l) + 1 - i]]
        byBrand == IF Truthy(brand)
                   THEN Reverse(SelectSeq(all, LAMBDA p : p.brand = brand)) ELSE all
        byCat   == IF Truthy(category)
                   THEN SelectSeq(byBrand, LAMBDA p : p.category = category)
                   ELSE byBrand
        s       == toLowerCase(query)
    IN  IF Truthy(trim(query))
        THEN SelectSeq(byCat, LAMBDA p :
                 \/ includes(toLowerCase(p.name), s)
                 \/ includes(toLowerCase(p.brand), s)
                 \/ includes(toLowerCase(p.category), s))
        ELSE byCat

\* the list applyFilters hands to setFiltered
filteredData(all, brand, category, query) ==
    LET byBrand == IF Truthy(brand)
                   THEN SelectSeq(all, LAMBDA p : p.brand = brand) ELSE all
        byCat   == IF Truthy(category)
                   THEN SelectSeq(byBrand, LAMBDA p : p.category = category)
                   ELSE byBrand
        s       == toLowerCase(query)
    IN  IF Truthy(trim(query))
        THEN SelectSeq(byCat, LAMBDA p :
                 \/ includes(toLowerCase(p.name), s)
                 \/ includes(toLowerCase(p.brand), s)
                 \/ includes(toLowerCase(p.category), s))
        ELSE byCat

\* useEffect(() => applyFilters(), [selectedBrand, selectedCategory, search,
\* products]): the value of filtered after the render that commits the state
\* p, b, c, q and the pending setFiltered(f); depsChanged says whether a
\* dependency differs (Object.is) from the previous render's
afterEffect(depsChanged, p, b, c, q, f) ==
    IF variant = "auto" /\ depsChanged
    THEN filteredData(p, b, c, q)
    ELSE f

\* -------------------------------------------------------------------- state
Init ==
    /\ variant \in Variants
    /\ store \in Tables
    /\ loadState = "pending"
    /\ products = << >>
    /\ filtered = << >>
    /\ brands = << >>
    /\ categories = << >>
    /\ selectedBrand = EmptyStr
    /\ selectedCategory = EmptyStr
    /\ search = EmptyStr
    /\ sheet = << >>
    /\ lastEvent = "mount"

\* the error branch also clearing the filter inputs
fetchError_clearsFilters ==
    /\ loadState = "pending"
    /\ loadState' = "failed"
    /\ selectedBrand' = EmptyStr
    /\ selectedCategory' = EmptyStr
    /\ search' = EmptyStr
    /\ lastEvent' = "fetchError"
    /\ UNCHANGED <<variant, store, products, filtered, brands, categories, sheet>>

\* the promise of fetchProducts resolves with an error
fetchError ==
    /\ loadState = "pending"
    /\ loadState' = "failed"
    /\ lastEvent' = "fetchError"
    /\ UNCHANGED <<variant, store, products, filtered, brands, categories,
                   selectedBrand, selectedCategory, search, sheet>>

\* the promise of fetchProducts resolves with rows
fetchSuccess(data) ==
    /\ loadState = "pending"
    /\ loadState' = "loaded"
    /\ products' = data
    /\ filtered' = afterEffect(TRUE, data, selectedBrand, selectedCategory, search, data)
    /\ brands' = ArrayFromSet(brandsOf(data))
    /\ categories' = ArrayFromSet(categoriesOf(data))
    /\ lastEvent' = "fetchSuccess"
    /\ UNCHANGED <<variant, store, selectedBrand, selectedCategory, search, sheet>>

\* const { data, error } = await supabase.from('products').select('*')
fetchProducts ==
    \E error \in BOOLEAN :
        IF error THEN fetchError ELSE fetchSuccess(store)

\* onChange of the search box
onSearchChange(value) ==
    /\ search' = value
    /\ filtered' = afterEffect(value # search, products, selectedBrand, selectedCategory, value, filtered)
    /\ lastEvent' = "search"
    /\ UNCHANGED <<variant, store, loadState, products, brands, categories,
                   selectedBrand, selectedCategory, sheet>>

\* the values a select offers: "" and one option per entry
Options(list) == {EmptyStr} \cup {list[i] : i \in 1..Len(list)}

\* onChange of the brand select
onBrandChange(value) ==
    /\ value # selectedBrand
    /\ selectedBrand' = value
    /\ filtered' = afterEffect(TRUE, products, value, selectedCategory, search, filtered)
    /\ lastEvent' = "brand"
    /\ UNCHANGED <<variant, store, loadState, products, brands, categories,
                   selectedCategory, search, sheet>>

\* onChange of the category select
onCategoryChange(value) ==
    /\ value # selectedCategory
    /\ selectedCategory' = value
    /\ filtered' = afterEffect(TRUE, products, selectedBrand, value, search, filtered)
    /\ lastEvent' = "category"
    /\ UNCHANGED <<variant, store, loadState, products, brands, categories,
                   selectedBrand, search, sheet>>

\* onClick of the Apply button
applyFilters ==
    /\ variant \in {"apply", "applyMsg"}
    /\ filtered' = filteredData(products, selectedBrand, selectedCategory, search)
    /\ lastEvent' = "apply"
    /\ UNCHANGED <<variant, store, loadState, products, brands, categories,
                   selectedBrand, selectedCategory, search, sheet>>

\* resetFilters with setSearch('') forgotten
resetFilters_keepsSearch ==
    /\ selectedBrand' = EmptyStr
    /\ selectedCategory' = EmptyStr
    /\ filtered' = afterEffect(<<selectedBrand, selectedCategory>> # <<EmptyStr, EmptyStr>>,
                            products, EmptyStr, EmptyStr, search, products)
    /\ lastEvent' = "reset"
    /\ UNCHANGED <<variant, store, loadState, products, brands, categories, search, sheet>>

\* onClick of the Reset button
resetFilters ==
    /\ selectedBrand' = EmptyStr
    /\ selectedCategory' = EmptyStr
    /\ search' = EmptyStr
    /\ filtered' = afterEffect(<<selectedBrand, selectedCategory, search>> #
                                <<EmptyStr, EmptyStr, EmptyStr>>,
                            products, EmptyStr, EmptyStr, EmptyStr, products)
    /\ lastEvent' = "reset"
    /\ UNCHANGED <<variant, store, loadState, products, brands, categories, sheet>>

\* XLSX.utils.json_to_sheet: one data row per record, in order
json_to_sheet(records) ==
    [i \in 1..Len(records) |->
        <<records[i].id, records[i].name, records[i].category,
          records[i].brand, records[i].price>>]

\* exportToExcel serialising products instead of filtered
exportToExcel_allProducts ==
    /\ sheet' = json_to_sheet(products)
    /\ lastEvent' = "export"
    /\ UNCHANGED <<variant, store, loadState, products, filtered, brands, categories,
                   selectedBrand, selectedCategory, search>>

\* onClick of the Export button
exportToExcel ==
    /\ sheet' = json_to_sheet(filtered)
    /\ lastEvent' = "export"
    /\ UNCHANGED <<variant, store, loadState, products, filtered, brands, categories,
                   selectedBrand, selectedCategory, search>>

Next ==
    \/ fetchProducts
    \/ \E v \in Keystrokes(search) : onSearchChange(v)
    \/ \E v \in Options(brands) : onBrandChange(v)
    \/ \E v \in Options(categories) : onCategoryChange(v)
    \/ applyFilters
    \/ resetFilters
    \/ exportToExcel

Spec == Init /\ [][Next]_vars

\* --------------------------------------------------------------- rendering
\* "Loading products..." is on screen
ShowsLoading == variant = "auto" /\ Len(products) = 0

\* "No products match your current filters." / "No results found" is on screen
ShowsNoMatches ==
    \/ variant = "auto" /\ Len(filtered) = 0 /\ Len(products) > 0
    \/ variant = "applyMsg" /\ Len(filtered) = 0

\* ------------------------------------------------------------------ claims
InList(p, l) == \E i \in 1..Len(l) : l[i] = p

\* the lower-cased name, brand or category of p contains s
TextMatch(p, s) ==
    \/ includes(toLowerCase(p.name), s)
    \/ includes(toLowerCase(p.brand), s)
    \/ includes(toLowerCase(p.category), s)

\* sub is l with some elements removed: same elements, same relative order
IsSubsequence(sub, l) ==
    \E f \in [1..Len(sub) -> 1..Len(l)] :
        /\ \A i, j \in 1..Len(sub) : i < j => f[i] < f[j]
        /\ \A i \in 1..Len(sub) : sub[i] = l[f[i]]

\* the index of the first occurrence of v in l
FirstIndex(v, l) == CHOOSE i \in 1..Len(l) : l[i] = v /\ \A j \in 1..(i - 1) : l[j] # v

\* out holds each value of l once, ordered by first occurrence in l
IsDistinctInFirstOccurrenceOrder(out, l) ==
    /\ {out[i] : i \in 1..Len(out)} = {l[i] : i \in 1..Len(l)}
    /\ \A i, j \in 1..Len(out) : i < j =>
           out[i] # out[j] /\ FirstIndex(out[i], l) < FirstIndex(out[j], l)

current == filteredData(products, selectedBrand, selectedCategory, search)

\* C1 as stated: a product is in the filtered list iff it passes the brand
\* test, the category test and (the query is the empty string or the
\* lower-cased query is a substring of a lower-cased field).
C1_ConjunctiveAsStated ==
    \A i \in 1..Len(products) :
        InList(products[i], current) <=>
            /\ (selectedBrand = EmptyStr \/ products[i].brand = selectedBrand)
            /\ (selectedCategory = EmptyStr \/ products[i].category = selectedCategory)
            /\ (search = EmptyStr \/ TextMatch(products[i], toLowerCase(search)))

\* C1 amended: the same, with the text test inactive when the query is empty
\* after trimming (so a whitespace-only query keeps every product); a query
\* that is not blank is matched as typed, untrimmed.
C1_ConjunctiveTrimmedGuard ==
    \A i \in 1..Len(products) :
        InList(products[i], current) <=>
            /\ (selectedBrand = EmptyStr \/ products[i].brand = selectedBrand)
            /\ (selectedCategory = EmptyStr \/ products[i].category = selectedCategory)
            /\ (trim(search) = EmptyStr \/ TextMatch(products[i], toLowerCase(search)))

\* a whitespace-only query with a brand chosen keeps some products, not all
C1_Witness ==
    /\ search = <<" ">>
    /\ selectedBrand # EmptyStr
    /\ Len(products) = 2
    /\ Len(current) = 1
    /\ filtered = current

AutoVisibleIsFilterOfCurrentState ==
    variant = "auto" => filtered = current

\* C3 as stated: when the load completes the visible list is the filter of
\* the new product list under the inputs already in place.
C3_LoadRecomputesUnderCurrentState ==
    lastEvent = "fetchSuccess" => filtered = current

\* the same restricted to the variant with the recompute effect (it holds)
AutoLoadRecomputesUnderCurrentState ==
    variant = "auto" /\ lastEvent = "fetchSuccess" => filtered = current

\* C4: after Reset the three inputs are empty and the visible list is the
\* full product list in order; filtering under the empty inputs is the identity.
C4_ResetRestoresFullList ==
    lastEvent = "reset" =>
        /\ search = EmptyStr
        /\ selectedBrand = EmptyStr
        /\ selectedCategory = EmptyStr
        /\ filtered = products
        /\ filteredData(products, selectedBrand, selectedCategory, search) = products

\* Reset pressed after the load, in the variant with the recompute effect
C4_Witness ==
    /\ lastEvent = "reset"
    /\ variant = "auto"
    /\ Len(products) = 2
    /\ filtered = products

\* C5: a failed load changes none of products, filtered, brands, categories
\* (all still empty) nor the filter inputs.
C5_LoadFailureIsolation ==
    [][lastEvent' = "fetchError" =>
          /\ UNCHANGED <<products, filtered, brands, categories,
                         selectedBrand, selectedCategory, search>>
          /\ products' = << >> /\ filtered' = << >>
          /\ brands' = << >> /\ categories' = << >>]_vars

\* the load failed after the user had typed a query
C5_Witness ==
    /\ lastEvent = "fetchError"
    /\ loadState = "failed"
    /\ search # EmptyStr
    /\ store # << >>

\* C6: for every brand and category on offer and the query typed, the list
\* applyFilters computes is a subsequence of products.
C6_FilterYieldsSubsequence ==
    \A b \in Options(brands), c \in Options(categories) :
        IsSubsequence(filteredData(products, b, c, search), products)

\* two products survive a brand filter and are shown
C6_Witness ==
    /\ selectedBrand # EmptyStr
    /\ Len(current) = 2
    /\ filtered = current

\* C7 as stated: after a successful load an empty visible list shows the
\* zero-matches message and not the loading one; before the load completes
\* the loading message shows and not the zero-matches one.
C7_EmptyStatesNotConflated ==
    /\ (loadState = "loaded" /\ filtered = << >>) => (ShowsNoMatches /\ ~ShowsLoading)
    /\ loadState = "pending" => (ShowsLoading /\ ~ShowsNoMatches)

\* C8: Export hands the serializer one row per visible product, in order,
\* and changes no other state.
C8_ExportHandsVisibleList ==
    [][lastEvent' = "export" =>
          /\ Len(sheet') = Len(filtered)
          /\ \A i \in 1..Len(filtered) : sheet'[i][1] = filtered[i].id
          /\ UNCHANGED <<products, filtered, brands, categories,
                         selectedBrand, selectedCategory, search>>]_vars

\* one of two products was visible when Export was pressed
C8_Witness ==
    /\ lastEvent = "export"
    /\ Len(products) = 2
    /\ Len(filtered) = 1
    /\ Len(sheet) = 1

\* C9 as stated: a query that is not blank is matched trimmed and
\* lower-cased, so surrounding whitespace does not change the result.
C9_MatchesTrimmedQuery ==
    Truthy(trim(search)) =>
        filteredData(products, EmptyStr, EmptyStr, search) =
            SelectSeq(products, LAMBDA p : TextMatch(p, toLowerCase(trim(search))))

\* C10: after a successful load products is the store's list as returned,
\* and brands and categories hold its distinct values in first-occurrence order.
C10_LoadKeepsListAndDistinctValues ==
    loadState = "loaded" =>
        /\ products = store
        /\ IsDistinctInFirstOccurrenceOrder(brands, [i \in 1..Len(store) |-> store[i].brand])
        /\ IsDistinctInFirstOccurrenceOrder(categories, [i \in 1..Len(store) |-> store[i].category])

\* two rows of the same brand and different categories were loaded
C10_Witness ==
    /\ lastEvent = "fetchSuccess"
    /\ Len(products) = 2
    /\ Len(brands) = 1
    /\ Len(categories) = 2

====
